---- MODULE Spec2Model ----
(***************************************************************************)
(* Model of trso-migrator (src/src/main.rs): migrate_database applies the  *)
(* SQL files of a directory to a libsql database, one transaction per      *)
(* file, and records each applied file name in the table `migrations`.     *)
(*                                                                         *)
(* Characters are their ASCII codes (47 is '/', 48..57 are the digits), a  *)
(* path is a sequence of characters.  A file's content is a sequence of    *)
(* statements, each "ok" (the database executes it) or "bad" (the database *)
(* rejects it); a directory entry that cannot be read as text (a           *)
(* sub-directory) has the content Unreadable.                              *)
(***************************************************************************)
EXTENDS Integers, Sequences, FiniteSets, TLC

\* Bounds of the model.
NumFiles == 3
MaxRuns == 2
\* Calls to the file system or the database that fail for a reason outside
\* the files' contents, over all runs.
MaxFaults == 2

VARIABLES
    dir,            \* file system: path -> content of the migrations directory
    tableExists,    \* database: the table `migrations` exists
    ledger,         \* database: committed rows of `migrations`, [id, file_name]
    autoinc,        \* database: committed AUTOINCREMENT counter of `migrations`
    effects,        \* database: file name -> number of its statements whose effect is committed
    tx,             \* database: the open transaction (uncommitted work)
    pc,             \* position of migrate_database
    list_files,     \* local: sorted Vec<PathBuf>
    idx,            \* local: position of the for loop in list_files
    in_database,    \* local: HashMap of the names loaded from the ledger
    name,           \* local: file name of the current file
    migration_content, \* local: content of the current file
    result,         \* value returned by the last run: the AppError kind, the call whose
                    \* error text (e.to_string()) it carries, the migration it names
    runs,           \* history: number of runs started
    commits,        \* history: file name -> number of times its batch was committed
    log,            \* history: calls of the current run, in order, <<op, name, outcome>>
    atStart,        \* history: the database, the previous result and the edits when the run started
    edited,         \* history: names of the files fixed since the last run started
    faults,         \* history: number of calls that failed for an outside reason
    dsn,            \* get_configs: the value of TRSO_DSN (<<>> when it is not set)
    parsed          \* get_configs: what parse_dsn returned for it

dbVars == <<tableExists, ledger, autoinc, effects, tx, commits>>
localVars == <<list_files, idx, in_database, name, migration_content>>
cfgVars == <<dsn, parsed>>
vars == <<dir, tableExists, ledger, autoinc, effects, tx, pc, list_files, idx,
          in_database, name, migration_content, result, runs, commits, log,
          atStart, edited, faults, dsn, parsed>>

----------------------------------------------------------------------------
\* Paths and their order

\* Decimal digits of n as characters.
RECURSIVE Digits(_)
Digits(n) == IF n < 10 THEN <<48 + n>> ELSE Digits(n \div 10) \o <<48 + (n % 10)>>

\* The i-th file of the universe is named 1, 10, 2, 20, 3, ...: names whose
\* lexicographic order differs from their numeric order.
FileNo(i) == IF i % 2 = 1 THEN (i + 1) \div 2 ELSE 10 * (i \div 2)

\* The migrations directory is "m"; entry i has the path "m/<FileNo(i)>".
MigrationsDir == <<109, 47>>

PathOf(i) == MigrationsDir \o Digits(FileNo(i))

Paths == {PathOf(i) : i \in 1..NumFiles}

\* Path::file_name: the component after the last '/'.
RECURSIVE file_name(_)
file_name(p) ==
    IF \E i \in 1..Len(p) : p[i] = 47
    THEN file_name(Tail(p))
    ELSE p

Names == {file_name(p) : p \in Paths}

\* Ord for PathBuf, for paths of one directory: lexicographic on the characters.
RECURSIVE PathLess(_, _)
PathLess(a, b) ==
    IF b = <<>> THEN FALSE
    ELSE IF a = <<>> THEN TRUE
    ELSE IF Head(a) # Head(b) THEN Head(a) < Head(b)
    ELSE PathLess(Tail(a), Tail(b))

RECURSIVE InsertSorted(_, _)
InsertSorted(p, s) ==
    IF s = <<>> THEN <<p>>
    ELSE IF PathLess(p, Head(s)) THEN <<p>> \o s
    ELSE <<Head(s)>> \o InsertSorted(p, Tail(s))

\* A sort that was left out: the listing order is kept.
NoSort(s) == s

\* Vec::sort
RECURSIVE SortPaths(_)
SortPaths(s) ==
    IF s = <<>> THEN <<>>
    ELSE InsertSorted(Head(s), SortPaths(Tail(s)))

\* The orders in which read_dir may return the entries of a directory.
RECURSIVE Listings(_)
Listings(S) ==
    IF S = {} THEN {<<>>}
    ELSE UNION {{<<x>> \o l : l \in Listings(S \ {x})} : x \in S}

----------------------------------------------------------------------------
\* File contents

Unreadable == <<"unreadable">>

Contents == {<<"ok">>, <<"ok", "bad">>, <<"bad">>}

\* Number of statements of a batch the database executes before it stops:
\* all of them, or those before the first rejected statement.
RECURSIVE StmtsRun(_)
StmtsRun(c) ==
    IF c = <<>> \/ Head(c) = "bad" THEN 0 ELSE 1 + StmtsRun(Tail(c))

BatchOk(c) == StmtsRun(c) = Len(c)

\* The content of a failing file after its author fixed it.
Fixed(c) == IF c = Unreadable THEN <<"ok">> ELSE [i \in 1..Len(c) |-> "ok"]

----------------------------------------------------------------------------
\* Database helpers

NoTx == [open |-> FALSE, stmts |-> 0, rows |-> <<>>]

LedgerNames == {ledger[i].file_name : i \in 1..Len(ledger)}

\* The file whose execute_batch failed in the run recorded in log, if any.
FailedIn(l) ==
    IF l # <<>> /\ l[Len(l)][1] = "rollback" THEN l[Len(l)][2] ELSE <<>>

Snapshot == [ledger |-> ledger, commits |-> commits, effects |-> effects,
             tableExists |-> tableExists, prevKind |-> result.kind,
             prevFailed |-> FailedIn(log), edited |-> edited]

\* parse_dsn has not been called.
NotParsed == [ok |-> FALSE, err |-> "not called"]

Init ==
    /\ dsn = <<>>
    /\ parsed = NotParsed
    /\ dir \in UNION {[S -> Contents \cup {Unreadable}] : S \in SUBSET Paths}
    /\ tableExists = FALSE
    /\ ledger = <<>>
    /\ autoinc = 0
    /\ effects = [n \in Names |-> 0]
    /\ tx = NoTx
    /\ pc = "idle"
    /\ list_files = <<>>
    /\ idx = 1
    /\ in_database = {}
    /\ name = <<>>
    /\ migration_content = <<>>
    /\ result = [kind |-> "none", cause |-> "none", ident |-> <<>>]
    /\ runs = 0
    /\ commits = [n \in Names |-> 0]
    /\ log = <<>>
    /\ edited = {}
    /\ faults = 0
    /\ atStart = [ledger |-> <<>>, commits |-> [n \in Names |-> 0],
                  effects |-> [n \in Names |-> 0], tableExists |-> FALSE,
                  prevKind |-> "none", prevFailed |-> <<>>, edited |-> {}]

----------------------------------------------------------------------------
\* migrate_database, one action per call it makes

\* `return`: the function ends with the given value.  Every AppError is built
\* from e.to_string() alone (lines 135, 143, 162, 168, 195, 213): it carries
\* the description of the failed call and names no migration.
Return(kind, cause) ==
    /\ pc' = "done"
    /\ result' = [kind |-> kind, cause |-> cause, ident |-> <<>>]

\* A call fails for an outside reason when it fails and is neither the
\* execution of a file's SQL nor the read of a file, which fail on the file.
Injected(op, outcome) ==
    outcome # "ok" /\ op \notin {"execute_batch", "read_to_string"}

Call(op, n, outcome) ==
    /\ log' = Append(log, <<op, n, outcome>>)
    /\ IF Injected(op, outcome)
       THEN faults < MaxFaults /\ faults' = faults + 1
       ELSE faults' = faults

\* A run that creates the table before it lists the directory.
ReadDirAfterCreate ==
    /\ pc \in {"idle", "done"}
    /\ runs < MaxRuns
    /\ runs' = runs + 1
    /\ atStart' = Snapshot
    /\ edited' = {}
    /\ idx' = 1
    /\ in_database' = {}
    /\ name' = <<>>
    /\ migration_content' = <<>>
    /\ tableExists' = TRUE
    /\ list_files' = <<>>
    /\ log' = <<<<"read_dir", <<>>, "err">>>>
    /\ faults < MaxFaults
    /\ faults' = faults + 1
    /\ Return("IOError", "read_dir")
    /\ UNCHANGED <<cfgVars, dir, ledger, autoinc, effects, tx, commits>>

\* Lines 132-146: read_dir, collect, sort.  A failure of read_dir or of one of
\* its entries returns IOError; otherwise the entries, in whatever order the
\* file system lists them, are sorted.
ReadDir ==
    /\ pc \in {"idle", "done"}
    /\ runs < MaxRuns
    /\ runs' = runs + 1
    /\ atStart' = Snapshot
    /\ edited' = {}
    /\ idx' = 1
    /\ in_database' = {}
    /\ name' = <<>>
    /\ migration_content' = <<>>
    /\ \/ /\ list_files' \in {SortPaths(listing) : listing \in Listings(DOMAIN dir)}
          /\ log' = <<<<"read_dir", <<>>, "ok">>>>
          /\ faults' = faults
          /\ pc' = "create"
          /\ result' = [kind |-> "none", cause |-> "none", ident |-> <<>>]
       \/ /\ list_files' = <<>>
          /\ log' = <<<<"read_dir", <<>>, "err">>>>
          /\ faults < MaxFaults
          /\ faults' = faults + 1
          /\ Return("IOError", "read_dir")
    /\ UNCHANGED <<cfgVars, dir, dbVars>>

\* A run that goes on to the SELECT without having created the table.
CreateTableSkipped ==
    /\ pc = "create"
    /\ Call("create_table", <<>>, "ok")
    /\ pc' = "select"
    /\ UNCHANGED <<cfgVars, dir, dbVars, localVars, result, runs, atStart, edited>>

\* Lines 148-163: CREATE TABLE IF NOT EXISTS migrations.
CreateTable ==
    /\ pc = "create"
    /\ \/ /\ tableExists' = TRUE
          /\ Call("create_table", <<>>, "ok")
          /\ pc' = "select"
          /\ UNCHANGED result
       \/ /\ Call("create_table", <<>>, "err")
          /\ Return("DatabaseError", "create_table")
          /\ UNCHANGED tableExists
    /\ UNCHANGED <<cfgVars, dir, ledger, autoinc, effects, tx, commits, localVars, runs,
                   atStart, edited>>

\* A load of the ledger that fills nothing into the HashMap.
LoadAppliedNothing ==
    /\ pc = "select"
    /\ in_database' = {}
    /\ Call("select", <<>>, "ok")
    /\ pc' = "loop"
    /\ UNCHANGED <<cfgVars, dir, dbVars, list_files, idx, name, migration_content,
                   result, runs, atStart, edited>>

\* Lines 165-175: SELECT * FROM migrations into the HashMap in_database.  A
\* failing query returns DatabaseError; a failing rows.next() is unwrapped.
LoadApplied ==
    /\ pc = "select"
    /\ \/ /\ in_database' = LedgerNames
          /\ Call("select", <<>>, "ok")
          /\ pc' = "loop"
          /\ UNCHANGED result
       \/ /\ Call("select", <<>>, "err")
          /\ Return("DatabaseError", "select")
          /\ UNCHANGED in_database
       \/ /\ Call("select", <<>>, "panic")
          /\ Return("panic", "rows.next")
          /\ UNCHANGED in_database
    /\ UNCHANGED <<cfgVars, dir, dbVars, list_files, idx, name, migration_content, runs,
                   atStart, edited>>

\* A loop head that reads every listed file, applied or not.
NextFileReadsApplied ==
    /\ pc = "loop"
    /\ IF idx > Len(list_files)
       THEN /\ Return("Ok", "none")
            /\ UNCHANGED <<idx, name, migration_content, log, faults>>
       ELSE LET file == list_files[idx]
                n == file_name(file)
            IN  /\ name' = n
                /\ IF dir[file] = Unreadable
                   THEN /\ Call("read_to_string", n, "err")
                        /\ Return("IOError", "read_to_string")
                        /\ UNCHANGED <<idx, migration_content>>
                   ELSE /\ migration_content' = dir[file]
                        /\ Call("read_to_string", n, "ok")
                        /\ pc' = "begin"
                        /\ UNCHANGED <<idx, result>>
    /\ UNCHANGED <<cfgVars, dir, dbVars, list_files, in_database, runs, atStart, edited>>

\* Lines 179-196 and 218: the head of the for loop.  The loop ends with Ok;
\* an applied name is skipped; otherwise the file is read, and a failing read
\* returns IOError.  (Every entry read_dir yields has a file name, so the
\* `None` arm of lines 182-185 is never taken.)
NextFile ==
    /\ pc = "loop"
    /\ IF idx > Len(list_files)
       THEN /\ Return("Ok", "none")
            /\ UNCHANGED <<idx, name, migration_content, log, faults>>
       ELSE LET file == list_files[idx]
                n == file_name(file)
            IN  /\ name' = n
                /\ IF n \in in_database
                   THEN /\ idx' = idx + 1
                        /\ Call("skip", n, "ok")
                        /\ UNCHANGED <<pc, result, migration_content>>
                   ELSE IF dir[file] = Unreadable
                   THEN /\ Call("read_to_string", n, "err")
                        /\ Return("IOError", "read_to_string")
                        /\ UNCHANGED <<idx, migration_content>>
                   ELSE /\ migration_content' = dir[file]
                        /\ Call("read_to_string", n, "ok")
                        /\ pc' = "begin"
                        /\ UNCHANGED <<idx, result>>
    /\ UNCHANGED <<cfgVars, dir, dbVars, list_files, in_database, runs, atStart, edited>>

\* Line 198: conn.transaction().await.unwrap(): a failure panics.
BeginTransaction ==
    /\ pc = "begin"
    /\ \/ /\ tx' = [open |-> TRUE, stmts |-> 0, rows |-> <<>>]
          /\ Call("transaction", name, "ok")
          /\ pc' = "exec"
          /\ UNCHANGED result
       \/ /\ Call("transaction", name, "panic")
          /\ Return("panic", "transaction")
          /\ UNCHANGED tx
    /\ UNCHANGED <<cfgVars, dir, tableExists, ledger, autoinc, effects, commits, localVars,
                   runs, atStart, edited>>

\* Line 199: execute_batch runs the statements of the file in the transaction
\* up to the first one the database rejects.
ExecuteBatch ==
    /\ pc = "exec"
    /\ tx' = [tx EXCEPT !.stmts = StmtsRun(migration_content)]
    /\ IF BatchOk(migration_content)
       THEN /\ Call("execute_batch", name, "ok")
            /\ pc' = "insert"
       ELSE /\ Call("execute_batch", name, "err")
            /\ pc' = "rollback"
    /\ UNCHANGED <<cfgVars, dir, tableExists, ledger, autoinc, effects, commits, localVars,
                   result, runs, atStart, edited>>

\* Lines 201-206: INSERT INTO migrations in the transaction; `let _ =` drops
\* the result, so a failed insert is followed by the commit all the same.
RecordApplied ==
    /\ pc = "insert"
    /\ \/ /\ tx' = [tx EXCEPT !.rows = Append(@, [id |-> autoinc + 1, file_name |-> name])]
          /\ Call("insert", name, "ok")
       \/ /\ Call("insert", name, "err")
          /\ UNCHANGED tx
    /\ pc' = "commit"
    /\ UNCHANGED <<cfgVars, dir, tableExists, ledger, autoinc, effects, commits, localVars,
                   result, runs, atStart, edited>>

\* A commit whose failure leaves the transaction open on the connection.
CommitLeavesOpen ==
    /\ pc = "commit"
    /\ \/ /\ effects' = [effects EXCEPT ![name] = @ + tx.stmts]
          /\ commits' = [commits EXCEPT ![name] = @ + 1]
          /\ ledger' = ledger \o tx.rows
          /\ autoinc' = autoinc + Len(tx.rows)
          /\ Call("commit", name, "ok")
          /\ tx' = NoTx
       \/ /\ Call("commit", name, "err")
          /\ UNCHANGED <<effects, commits, ledger, autoinc, tx>>
    /\ idx' = idx + 1
    /\ pc' = "loop"
    /\ UNCHANGED <<cfgVars, dir, tableExists, list_files, in_database, name,
                   migration_content, result, runs, atStart, edited>>

\* Lines 207-208: commit; `let _ =` drops the result, and the loop goes on to
\* the next file.  A commit that fails commits nothing.
Commit ==
    /\ pc = "commit"
    /\ \/ /\ effects' = [effects EXCEPT ![name] = @ + tx.stmts]
          /\ commits' = [commits EXCEPT ![name] = @ + 1]
          /\ ledger' = ledger \o tx.rows
          /\ autoinc' = autoinc + Len(tx.rows)
          /\ Call("commit", name, "ok")
       \/ /\ Call("commit", name, "err")
          /\ UNCHANGED <<effects, commits, ledger, autoinc>>
    /\ tx' = NoTx
    /\ idx' = idx + 1
    /\ pc' = "loop"
    /\ UNCHANGED <<cfgVars, dir, tableExists, list_files, in_database, name,
                   migration_content, result, runs, atStart, edited>>

\* An error arm that commits the work of the failed batch instead of rolling
\* it back.
RollbackCommits ==
    /\ pc = "rollback"
    /\ Call("rollback", name, "ok")
    /\ effects' = [effects EXCEPT ![name] = @ + tx.stmts]
    /\ tx' = NoTx
    /\ Return("DatabaseError", "execute_batch")
    /\ UNCHANGED <<cfgVars, dir, tableExists, ledger, autoinc, commits, localVars, runs,
                   atStart, edited>>

\* An error arm that returns the error of a failed rollback in place of the
\* execution error.
RollbackEscalates ==
    /\ pc = "rollback"
    /\ \/ /\ Call("rollback", name, "ok")
          /\ Return("DatabaseError", "execute_batch")
       \/ /\ Call("rollback", name, "err")
          /\ Return("DatabaseError", "rollback")
    /\ tx' = NoTx
    /\ UNCHANGED <<cfgVars, dir, tableExists, ledger, autoinc, effects, commits,
                   localVars, runs, atStart, edited>>

\* Lines 210-214: rollback, its result dropped, then return DatabaseError
\* with the text of the execution error.  The work of the transaction is
\* discarded whether the ROLLBACK succeeds or the handle is dropped.
Rollback ==
    /\ pc = "rollback"
    /\ \/ Call("rollback", name, "ok")
       \/ Call("rollback", name, "err")
    /\ tx' = NoTx
    /\ Return("DatabaseError", "execute_batch")
    /\ UNCHANGED <<cfgVars, dir, tableExists, ledger, autoinc, effects, commits, localVars,
                   runs, atStart, edited>>

\* Between two runs the author of the file the last run aborted on (its
\* execution failed, or it could not be read) fixes its content.
FixFile ==
    /\ pc = "done"
    /\ runs < MaxRuns
    /\ result.cause \in {"execute_batch", "read_to_string"}
    /\ \E p \in DOMAIN dir :
        /\ file_name(p) = name
        /\ dir[p] = Unreadable \/ ~BatchOk(dir[p])
        /\ dir' = [dir EXCEPT ![p] = Fixed(dir[p])]
        /\ edited' = edited \cup {name}
    /\ UNCHANGED <<faults, cfgVars, dbVars, pc, localVars, result, runs, log, atStart>>

\* Between two runs a file that has a ledger row becomes unreadable (it is
\* replaced by a directory, or its permissions are taken away).  At most one
\* file is edited between two runs.
BreakFile ==
    /\ pc = "done"
    /\ runs < MaxRuns
    /\ edited = {}
    /\ \E p \in DOMAIN dir :
        /\ file_name(p) \in LedgerNames
        /\ dir[p] # Unreadable
        /\ dir' = [dir EXCEPT ![p] = Unreadable]
        /\ edited' = edited \cup {file_name(p)}
    /\ UNCHANGED <<faults, cfgVars, dbVars, pc, localVars, result, runs, log, atStart>>

Next ==
    \/ ReadDir
    \/ CreateTable
    \/ LoadApplied
    \/ NextFile
    \/ BeginTransaction
    \/ ExecuteBatch
    \/ RecordApplied
    \/ Commit
    \/ Rollback
    \/ FixFile
    \/ BreakFile

Spec == Init /\ [][Next]_vars

----------------------------------------------------------------------------
\* parse_dsn (lines 22-49), on sequences of characters: 63 is '?', 38 is '&',
\* 61 is '='.

MaxPairs == 2

\* "authToken"
AuthToken == <<97, 117, 116, 104, 84, 111, 107, 101, 110>>

ErrNoBase == "TRSO_DSN must include the database URL before '?'"
ErrNoQuery == "TRSO_DSN must include query parameters"
ErrEmptyToken == "authToken in TRSO_DSN cannot be empty"
ErrNoToken == "TRSO_DSN must include authToken query parameter"

\* Position of the first c in s, 0 when there is none.
RECURSIVE find(_, _)
find(s, c) ==
    IF s = <<>> THEN 0
    ELSE IF Head(s) = c THEN 1
    ELSE IF find(Tail(s), c) = 0 THEN 0
    ELSE 1 + find(Tail(s), c)

\* str::splitn(2, c): the text before the first c and the text after it, or
\* the whole text when it holds no c.
splitn2(s, c) ==
    IF find(s, c) = 0 THEN <<s>>
    ELSE <<SubSeq(s, 1, find(s, c) - 1), SubSeq(s, find(s, c) + 1, Len(s))>>

\* str::split(c)
RECURSIVE split(_, _)
split(s, c) ==
    IF find(s, c) = 0 THEN <<s>>
    ELSE <<SubSeq(s, 1, find(s, c) - 1)>> \o split(SubSeq(s, find(s, c) + 1, Len(s)), c)

\* Lines 34-48: the loop over the pairs of the query.
RECURSIVE ScanPairs(_, _)
ScanPairs(base, pairs) ==
    IF pairs = <<>> THEN [ok |-> FALSE, err |-> ErrNoToken]
    ELSE LET kv == splitn2(Head(pairs), 61)
             key == kv[1]
             value == IF Len(kv) > 1 THEN kv[2] ELSE <<>>
         IN  IF key = AuthToken
             THEN IF value = <<>>
                  THEN [ok |-> FALSE, err |-> ErrEmptyToken]
                  ELSE [ok |-> TRUE, url |-> base, token |-> value]
             ELSE ScanPairs(base, Tail(pairs))

\* A parse_dsn that looks at the first pair of the query only.
parse_dsn_first_pair(d) ==
    LET parts == splitn2(d, 63)
    IN  IF parts[1] = <<>> THEN [ok |-> FALSE, err |-> ErrNoBase]
        ELSE IF Len(parts) < 2 THEN [ok |-> FALSE, err |-> ErrNoQuery]
        ELSE ScanPairs(parts[1], <<Head(split(parts[2], 38))>>)

parse_dsn(d) ==
    LET parts == splitn2(d, 63)
    IN  IF parts[1] = <<>> THEN [ok |-> FALSE, err |-> ErrNoBase]
        ELSE IF Len(parts) < 2 THEN [ok |-> FALSE, err |-> ErrNoQuery]
        ELSE ScanPairs(parts[1], split(parts[2], 38))

\* The values of TRSO_DSN the check draws from: a base that is empty or "u",
\* alone or followed by '?' and up to MaxPairs pairs joined by '&'.  The
\* pairs are authToken=t, authToken=, authToken, p=x, the empty pair and
\* authToken=a=b.
Bases == {<<>>, <<117>>}

PairTexts ==
    {AuthToken \o <<61, 116>>, AuthToken \o <<61>>, AuthToken, <<112, 61, 120>>, <<>>,
     AuthToken \o <<61, 97, 61, 98>>}

RECURSIVE Join(_)
Join(ps) ==
    IF Len(ps) = 1 THEN ps[1] ELSE ps[1] \o <<38>> \o Join(Tail(ps))

Queries == UNION {[1..k -> PairTexts] : k \in 1..MaxPairs}

Dsns == Bases \cup {b \o <<63>> \o Join(q) : b \in Bases, q \in Queries}

InitDsn ==
    /\ dsn \in Dsns
    /\ parsed = NotParsed
    /\ dir = <<>>
    /\ tableExists = FALSE
    /\ ledger = <<>>
    /\ autoinc = 0
    /\ effects = [n \in Names |-> 0]
    /\ tx = NoTx
    /\ pc = "idle"
    /\ list_files = <<>>
    /\ idx = 1
    /\ in_database = {}
    /\ name = <<>>
    /\ migration_content = <<>>
    /\ result = [kind |-> "none", cause |-> "none", ident |-> <<>>]
    /\ runs = 0
    /\ commits = [n \in Names |-> 0]
    /\ log = <<>>
    /\ edited = {}
    /\ faults = 0
    /\ atStart = [ledger |-> <<>>, commits |-> [n \in Names |-> 0],
                  effects |-> [n \in Names |-> 0], tableExists |-> FALSE,
                  prevKind |-> "none", prevFailed |-> <<>>, edited |-> {}]

\* Line 85: get_configs calls parse_dsn on TRSO_DSN.
ParseDsn ==
    /\ parsed = NotParsed
    /\ parsed' = parse_dsn(dsn)
    /\ UNCHANGED <<faults, dir, dbVars, pc, localVars, result, runs, log, atStart, edited, dsn>>

NextDsn == ParseDsn

SpecDsn == InitDsn /\ [][NextDsn]_vars

----------------------------------------------------------------------------
\* Vocabulary of the properties

Finished == pc = "done"

\* Positions of the calls of the current run with the given operation and outcome.
CallsOf(op, outcome) == {i \in 1..Len(log) : log[i][1] = op /\ log[i][3] = outcome}

Called(op, n, outcome) == \E i \in 1..Len(log) : log[i] = <<op, n, outcome>>

\* Some call about the file n was made in the current run after it was listed.
Touched(n) == \E i \in 1..Len(log) : log[i][2] = n /\ log[i][1] # "skip"

\* The names whose SQL the current run executed, in order.
RECURSIVE ExecutedIn(_)
ExecutedIn(l) ==
    IF l = <<>> THEN <<>>
    ELSE IF Head(l)[1] = "execute_batch" THEN <<Head(l)[2]>> \o ExecutedIn(Tail(l))
    ELSE ExecutedIn(Tail(l))

\* The names whose transaction the current run committed, in order.
RECURSIVE CommittedIn(_)
CommittedIn(l) ==
    IF l = <<>> THEN <<>>
    ELSE IF Head(l)[1] = "commit" /\ Head(l)[3] = "ok"
         THEN <<Head(l)[2]>> \o CommittedIn(Tail(l))
    ELSE CommittedIn(Tail(l))

\* Lexicographic order of two character sequences, stated without recursion.
LexLess(a, b) ==
    \E k \in 0..Len(a) :
        /\ k <= Len(b)
        /\ \A i \in 1..k : a[i] = b[i]
        /\ \/ k = Len(a) /\ k < Len(b)
           \/ k < Len(a) /\ k < Len(b) /\ a[k + 1] < b[k + 1]

PathOfName(n) == MigrationsDir \o n

\* The names of list_files from position i on.
NamesFrom(i) == [j \in 1..(Len(list_files) - i + 1) |-> file_name(list_files[j + i - 1])]

\* Position of the name n in list_files (0 when it is not listed).
PosOf(n) ==
    IF \E i \in 1..Len(list_files) : file_name(list_files[i]) = n
    THEN CHOOSE i \in 1..Len(list_files) : file_name(list_files[i]) = n
    ELSE 0

----------------------------------------------------------------------------
\* C1: between two file iterations and at the end of every run, a name has a
\* row in the ledger if and only if the SQL of that file has been committed.
C1_LedgerInvariant ==
    pc \in {"idle", "loop", "done"} =>
        \A n \in Names : (n \in LedgerNames) <=> (commits[n] > 0)

C3_FailFast ==
    (Finished /\ FailedIn(log) # <<>>) =>
        LET k == PosOf(FailedIn(log))
        IN  /\ k > 0
            /\ \A i \in 1..(k - 1) :
                  /\ file_name(list_files[i]) \in LedgerNames
                  /\ commits[file_name(list_files[i])] > 0
            /\ FailedIn(log) \notin LedgerNames
            /\ commits[FailedIn(log)] = atStart.commits[FailedIn(log)]
            /\ \A i \in (k + 1)..Len(list_files) : ~Touched(file_name(list_files[i]))

\* C4: a run that follows a successful run over the unchanged directory
\* executes no migration, inserts no ledger row and leaves the ledger as it was.
C4_Idempotent ==
    (runs >= 2 /\ atStart.prevKind = "Ok" /\ atStart.edited = {}) =>
        /\ ExecutedIn(log) = <<>>
        /\ CallsOf("insert", "ok") = {} /\ CallsOf("insert", "err") = {}
        /\ ledger = atStart.ledger

\* C5: within a run the files are committed in lexicographic order of their
\* paths, whatever order read_dir listed them in, and the ledger rows the
\* run adds carry ids that grow in that same order.
C5_Ordering ==
    LET done == CommittedIn(log)
        first == Len(atStart.ledger) + 1
    IN  /\ \A i, j \in 1..Len(done) :
              i < j => LexLess(PathOfName(done[i]), PathOfName(done[j]))
        /\ \A i, j \in first..Len(ledger) :
              LexLess(PathOfName(ledger[i].file_name), PathOfName(ledger[j].file_name))
                  <=> ledger[i].id < ledger[j].id

\* One run committed "10" and then "2", and both have their ledger rows.
C5_Witness ==
    /\ CommittedIn(log) = <<Digits(10), Digits(2)>>
    /\ Len(ledger) = Len(atStart.ledger) + 2
    /\ ledger[Len(ledger)].file_name = Digits(2)

\* C6: the run after a run that aborted on a failing file, with that file
\* fixed in between, executes no file the earlier run committed and executes
\* exactly the fixed file and the files listed after it, in order.
C6_ResumeAfterFailure ==
    (Finished /\ result.kind = "Ok" /\ atStart.prevFailed # <<>>
        /\ atStart.edited = {atStart.prevFailed}) =>
        /\ \A i \in 1..Len(ExecutedIn(log)) : atStart.commits[ExecutedIn(log)[i]] = 0
        /\ ExecutedIn(log) = NamesFrom(PosOf(atStart.prevFailed))

\* C7: the SQL of a file is committed at most once over all runs.
C7_AppliedAtMostOnce == \A n \in Names : commits[n] <= 1

\* C8: a failed commit is the last call of its run, and the run returns
\* DatabaseError.
C8_CommitFailureFatal ==
    \A i \in CallsOf("commit", "err") :
        /\ i = Len(log)
        /\ Finished => result.kind = "DatabaseError"

\* C9: after a failed INSERT of the ledger row the transaction of that file
\* is not committed, and the run returns DatabaseError.
C9_InsertFailurePropagates ==
    \A i \in CallsOf("insert", "err") :
        /\ ~Called("commit", log[i][2], "ok")
        /\ Finished => result.kind = "DatabaseError"

\* C10: a run over an empty directory on a database without the table
\* `migrations` opens no transaction and commits nothing, leaves the ledger
\* empty, and, when none of its calls failed, returns Ok with the table created.
C10_EmptyDirectory ==
    (Finished /\ DOMAIN dir = {} /\ ~atStart.tableExists) =>
        /\ CallsOf("transaction", "ok") = {} /\ CallsOf("transaction", "panic") = {}
        /\ ExecutedIn(log) = <<>>
        /\ commits = atStart.commits
        /\ ledger = <<>>
        /\ (\A i \in 1..Len(log) : log[i][3] = "ok") =>
              (result.kind = "Ok" /\ tableExists)

\* A run over an empty directory has returned Ok and created the empty table.
C10_Witness ==
    /\ Finished
    /\ DOMAIN dir = {}
    /\ ~atStart.tableExists
    /\ result.kind = "Ok"
    /\ tableExists
    /\ ledger = <<>>

\* C11: when the directory cannot be listed the run returns IOError and has
\* made no call to the database: read_dir is its only call, and the table,
\* the ledger and the committed effects are what they were when it started.
C11_UnreadableDirectory ==
    Called("read_dir", <<>>, "err") =>
        /\ Finished
        /\ result.kind = "IOError"
        /\ Len(log) = 1
        /\ ~tx.open
        /\ tableExists = atStart.tableExists
        /\ ledger = atStart.ledger
        /\ effects = atStart.effects
        /\ commits = atStart.commits

\* A run on a database without the table failed to list a directory that
\* holds files, and the table is still absent.
C11_Witness ==
    /\ Called("read_dir", <<>>, "err")
    /\ Finished
    /\ result.kind = "IOError"
    /\ DOMAIN dir # {}
    /\ ~tableExists

\* C12: the DatabaseError returned after the SQL of a file failed names that
\* file and carries the description of the execution error.
C12_ErrorIdentifiesMigration ==
    (Finished /\ FailedIn(log) # <<>>) =>
        /\ result.kind = "DatabaseError"
        /\ result.cause = "execute_batch"
        /\ result.ident = FailedIn(log)

\* Vocabulary of C13, by positions in the DSN and without splitting it.
HasQuery(d) == \E i \in 1..Len(d) : d[i] = 63

\* Position of the first '?'.
FirstQ(d) == CHOOSE i \in 1..Len(d) : d[i] = 63 /\ \A j \in 1..(i - 1) : d[j] # 63

\* Positions where a pair of the query starts: after the '?' and after each '&'.
PairStarts(d) == {i \in (FirstQ(d) + 1)..(Len(d) + 1) : i = FirstQ(d) + 1 \/ d[i - 1] = 38}

\* Position after the last character of the pair that starts at i.
PairEnd(d, i) ==
    CHOOSE e \in i..(Len(d) + 1) :
        /\ e = Len(d) + 1 \/ d[e] = 38
        /\ \A j \in i..(e - 1) : d[j] # 38

\* The pair that starts at i has the key authToken.
IsTokenPair(d, i) ==
    /\ PairEnd(d, i) - i >= Len(AuthToken)
    /\ SubSeq(d, i, i + Len(AuthToken) - 1) = AuthToken
    /\ PairEnd(d, i) = i + Len(AuthToken) \/ d[i + Len(AuthToken)] = 61

TokenPairs(d) == {i \in PairStarts(d) : IsTokenPair(d, i)}

FirstTokenPair(d) == CHOOSE i \in TokenPairs(d) : \A j \in TokenPairs(d) : i <= j

\* The value of the authToken pair that starts at i: what follows its '='.
TokenValue(d, i) == SubSeq(d, i + Len(AuthToken) + 1, PairEnd(d, i) - 1)

\* What the claim says of a DSN that has a '?'.
C13_WithQuery(d) ==
    IF FirstQ(d) = 1 THEN ~parsed.ok
    ELSE IF TokenPairs(d) = {} THEN parsed = [ok |-> FALSE, err |-> ErrNoToken]
    ELSE IF TokenValue(d, FirstTokenPair(d)) = <<>> THEN ~parsed.ok
    ELSE parsed = [ok |-> TRUE, url |-> SubSeq(d, 1, FirstQ(d) - 1),
                   token |-> TokenValue(d, FirstTokenPair(d))]

\* C13 as claimed: parse_dsn returns the base and the value of the first
\* authToken pair; the error about the query parameters for every DSN
\* without '?'; an error for an empty base or an empty first token; the
\* error about authToken when no pair has that key.
C13_ParseDsnAsClaimed ==
    parsed # NotParsed =>
        IF HasQuery(dsn) THEN C13_WithQuery(dsn)
        ELSE parsed = [ok |-> FALSE, err |-> ErrNoQuery]

\* C13 as amended: the error about the query parameters for every non-empty
\* DSN without '?'; the empty DSN gets the error about the database URL.
C13_ParseDsn ==
    parsed # NotParsed =>
        IF HasQuery(dsn) THEN C13_WithQuery(dsn)
        ELSE IF dsn = <<>> THEN parsed = [ok |-> FALSE, err |-> ErrNoBase]
        ELSE parsed = [ok |-> FALSE, err |-> ErrNoQuery]

\* parse_dsn returned the token of an authToken pair that is not the first
\* pair of the query.
C13_Witness ==
    /\ parsed # NotParsed
    /\ parsed.ok
    /\ HasQuery(dsn)
    /\ FirstTokenPair(dsn) > FirstQ(dsn) + 1
    /\ parsed.token = <<116>>

\* C14: when a transaction cannot be started the run returns DatabaseError,
\* the SQL of that file is not executed and nothing follows the failed call.
C14_BeginFailure ==
    \A i \in CallsOf("transaction", "panic") :
        /\ i = Len(log)
        /\ ~Called("execute_batch", log[i][2], "ok")
        /\ Finished => result.kind = "DatabaseError"

\* Transactions the calls of l opened less those they committed or rolled back.
RECURSIVE OpenAfter(_)
OpenAfter(l) ==
    IF l = <<>> THEN 0
    ELSE OpenAfter(Tail(l))
         + (IF Head(l)[1] = "transaction" /\ Head(l)[3] = "ok" THEN 1
            ELSE IF Head(l)[1] \in {"commit", "rollback"} THEN -1
            ELSE 0)

\* C15: a run has at most one transaction open; every transaction it opened
\* but the open one is committed or rolled back; none is open while the loop
\* looks at the next file or once the run has returned.
C15_StrictSequencing ==
    /\ OpenAfter(log) = (IF tx.open THEN 1 ELSE 0)
    /\ tx.open => pc \in {"exec", "insert", "commit", "rollback"}

\* A run has returned after a transaction whose commit failed and a later one
\* that was rolled back, and no transaction is open.
C15_Witness ==
    /\ Finished
    /\ CallsOf("commit", "err") # {}
    /\ FailedIn(log) # <<>>
    /\ Cardinality(CallsOf("transaction", "ok")) = 2
    /\ ~tx.open

\* C17: a failed rollback is the last call of its run, the run returns the
\* DatabaseError of the execution error, and the work of the failed batch is
\* not committed.
C17_RollbackBestEffort ==
    \A i \in CallsOf("rollback", "err") :
        /\ i = Len(log)
        /\ Finished
        /\ result.kind = "DatabaseError"
        /\ result.cause = "execute_batch"
        /\ effects[log[i][2]] = 0

\* A rollback failed while files were still to come, and the run returned
\* the DatabaseError of the execution error.
C17_Witness ==
    /\ CallsOf("rollback", "err") # {}
    /\ Finished
    /\ result = [kind |-> "DatabaseError", cause |-> "execute_batch", ident |-> <<>>]
    /\ idx < Len(list_files)

\* C18: no call is made twice for the same file in a run, and a call that
\* fails ends its run: nothing follows it but the rollback of the failed
\* batch, and the run does not return Ok.
C18_NoRetriesFailFast ==
    /\ \A i, j \in 1..Len(log) :
          (i # j) => <<log[i][1], log[i][2]>> # <<log[j][1], log[j][2]>>
    /\ \A i \in 1..Len(log) :
          (log[i][3] # "ok") =>
              /\ \/ i = Len(log)
                 \/ /\ log[i][1] = "execute_batch"
                    /\ i + 1 = Len(log)
                    /\ log[i + 1][1] = "rollback"
              /\ Finished => result.kind # "Ok"

\* C19: when a run returns Ok every file of the directory has a ledger row
\* and its SQL is committed.
C19_SuccessMeansMigrated ==
    (Finished /\ result.kind = "Ok") =>
        \A p \in DOMAIN dir :
            /\ \E i \in 1..Len(ledger) : ledger[i].file_name = file_name(p)
            /\ commits[file_name(p)] > 0

\* C20: no two ledger rows have the same name or the same id, and the rows
\* the ledger had when the run started are still its first rows.
C20_NoDuplicateRows ==
    /\ \A i, j \in 1..Len(ledger) :
          (i # j) => /\ ledger[i].file_name # ledger[j].file_name
                     /\ ledger[i].id # ledger[j].id
    /\ Len(atStart.ledger) <= Len(ledger)
    /\ SubSeq(ledger, 1, Len(atStart.ledger)) = atStart.ledger

\* A second run skipped a file the first run had recorded and added the row
\* of another file.
C20_Witness ==
    /\ Finished
    /\ runs = 2
    /\ CallsOf("skip", "ok") # {}
    /\ Len(atStart.ledger) >= 1
    /\ Len(ledger) > Len(atStart.ledger)

\* The names that had a ledger row when the current run started.
AppliedAtStart == {atStart.ledger[i].file_name : i \in 1..Len(atStart.ledger)}

\* C16: a failed read of a pending file is the last call of its run, which
\* returns IOError with no transaction opened for that file; what the run
\* committed before stays committed, and the ledger rows it inserted stay in
\* the ledger; a file that had a ledger row when the run started is never read.
C16_ReadFailure ==
    /\ \A i \in CallsOf("read_to_string", "err") :
          /\ i = Len(log)
          /\ Finished
          /\ result.kind = "IOError"
          /\ ~tx.open
          /\ \A j \in 1..Len(log) : log[j][1] = "transaction" => log[j][2] # log[i][2]
          /\ \A j \in CallsOf("commit", "ok") :
                /\ commits[log[j][2]] = atStart.commits[log[j][2]] + 1
                /\ Called("insert", log[j][2], "ok") =>
                      \E k \in 1..Len(ledger) : ledger[k].file_name = log[j][2]
    /\ \A i \in 1..Len(log) :
          log[i][1] = "read_to_string" => log[i][2] \notin AppliedAtStart

\* A run skipped an unreadable file that has a ledger row, committed a
\* pending file, and returned IOError on a pending file it could not read.
C16_Witness ==
    /\ Finished
    /\ result.kind = "IOError"
    /\ CallsOf("read_to_string", "err") # {}
    /\ CallsOf("commit", "ok") # {}
    /\ \E p \in DOMAIN dir :
          /\ dir[p] = Unreadable
          /\ file_name(p) \in AppliedAtStart
          /\ Called("skip", file_name(p), "ok")

====
